---- MODULE Spec2Model ----
(***************************************************************************)
(* Model of the cloud-weather-dashboard aggregation pipeline.              *)
(*                                                                         *)
(*   SpecAgg : one fetchWeatherForLocation call: its three source fetches  *)
(*             settling in any order, the join and createAggregatedWeather.*)
(*   Spec    : one invocation of a provider handler (single or batch),     *)
(*             with its concurrent source fetches and persistence writes.  *)
(*   SpecXC  : one invocation of the cross-cloud aggregation handler.      *)
(*   SpecUI  : the Next.js aggregation route and the useWeatherData hook.  *)
(*   SpecCalc: the cross-cloud aggregator's functions (consensus,          *)
(*             variations, reliability, agreement, freshness, per-location *)
(*             breakdown) on bounded arguments.                            *)
(*                                                                         *)
(* Units: temperature and windSpeed are held in tenths (22.0 C = 220), so  *)
(* that "rounded to one decimal" is integer rounding; every other metric   *)
(* is held in its own unit.  Arithmetic is exact (rational), where the     *)
(* code uses IEEE doubles: on the values this model feeds to the code the  *)
(* two agree (every general temperature is a multiple of 0.5, which a      *)
(* double holds exactly), except for the mean of TieBlocks' temperatures,  *)
(* whose double sum depends on the order of addition (SumFallsShort).      *)
(***************************************************************************)
EXTENDS Integers, Sequences, FiniteSets, TLC

VARIABLES
    \* --- SpecAgg ---
    weatherResults,   \* the three source fetches of one call: pending or settled
    settleOrder,      \* the order in which they completed
    aggregatedOut,    \* what fetchWeatherForLocation computed from them
    \* --- Spec (provider handler) ---
    hpc,              \* position of exports.handler
    event,            \* the request: specificLocation, locations
    secrets,          \* outcome of getSecrets
    loc,              \* per location: state of its fetchWeatherForLocation call
    sink,             \* records written to the persistence sink
    response,         \* the handler's response, once returned
    \* --- SpecXC (cross-cloud aggregation handler) ---
    xpc,              \* position of the aggregation handler
    xevent,           \* its event as parsed: location, providers, body
    cloudPromises,    \* the provider fetches it started, with their state
    xsink,            \* aggregate records written to DynamoDB
    xresponse,        \* its response, once returned
    \* --- SpecUI (aggregation route and useWeatherData hook) ---
    uipc,             \* position of the hook's fetchWeatherData / the route
    uiEnv,            \* the route's configuration and the requested location
    routeResponse,    \* the aggregation route's response to the hook
    hook,             \* the hook's React state
    fetches,          \* number of fetches the hook has issued to the route
    \* --- SpecCalc (the cross-cloud aggregator's functions) ---
    calcIn,           \* the function called and its argument
    calcOut           \* what it returned

aggVars  == <<weatherResults, settleOrder, aggregatedOut>>
provVars == <<hpc, event, secrets, loc, sink, response>>
xcVars   == <<xpc, xevent, cloudPromises, xsink, xresponse>>
uiVars   == <<uipc, uiEnv, routeResponse, hook, fetches>>
calcVars == <<calcIn, calcOut>>
vars     == <<weatherResults, settleOrder, aggregatedOut, hpc, event, secrets, loc, sink, response,
              xpc, xevent, cloudPromises, xsink, xresponse,
              uipc, uiEnv, routeResponse, hook, fetches, calcIn, calcOut>>

\* A result that has not been produced yet.
Pending == [pending |-> TRUE]

-----------------------------------------------------------------------------
(* Source readings *)

SOURCE_NAMES == <<"openweather", "weatherapi", "accuweather">>

NumSources == Len(SOURCE_NAMES)

Metrics == {"temperature", "humidity", "pressure", "windSpeed",
            "windDirection", "visibility", "cloudiness"}

\* Complete observations a source may report (temperature, windSpeed in tenths).
Samples ==
    { [temperature |-> 220, humidity |-> 60, pressure |-> 1013, windSpeed |-> 35,
       windDirection |-> 180, visibility |-> 10000, cloudiness |-> 20,
       description |-> "clear sky"],
      [temperature |-> 240, humidity |-> 65, pressure |-> 1010, windSpeed |-> 42,
       windDirection |-> 200, visibility |-> 8000, cloudiness |-> 40,
       description |-> "light rain"],
      [temperature |-> 235, humidity |-> 71, pressure |-> 1016, windSpeed |-> 50,
       windDirection |-> 90, visibility |-> 9000, cloudiness |-> 75,
       description |-> ""],
      [temperature |-> 0 - 275, humidity |-> 90, pressure |-> 1021, windSpeed |-> 120,
       windDirection |-> 350, visibility |-> 5000, cloudiness |-> 100,
       description |-> "snow"] }

\* A reading in which the source's reply did not carry field m (undefined).
Without(r, m) == [f \in (DOMAIN r) \ {m} |-> r[f]]

\* The normalised readings a source fetch can fulfil with: a complete sample,
\* or a sample lacking one metric.
Readings == Samples \cup { Without(r, m) : r \in Samples, m \in Metrics }

Has(r, f) == f \in DOMAIN r

Fulfilled(v) == [status |-> "fulfilled", value |-> v]
Rejected(msg) == [status |-> "rejected", reason |-> msg]

FetchFailures == {"timeout of 10000ms exceeded"}

SettledSourceResults ==
    { Fulfilled(r) : r \in Readings } \cup { Rejected(m) : m \in FetchFailures }

-----------------------------------------------------------------------------
(* JavaScript numbers: finite values, NaN and the infinities *)

Fin(n) == [kind |-> "finite", v |-> n]
NaN == [kind |-> "NaN", v |-> 0]
Infinity == [kind |-> "Infinity", v |-> 0]
NegInfinity == [kind |-> "-Infinity", v |-> 0]

IsFinite(x) == x.kind = "finite"

\* A plausible slip: truncation (Math.floor) instead of Math.round.
MathFloorDiv(num, den) ==
    IF den = 0
    THEN IF num = 0 THEN NaN ELSE IF num > 0 THEN Infinity ELSE NegInfinity
    ELSE Fin(num \div den)

\* Math.round(num / den): nearest integer, ties towards +Infinity; a zero
\* divisor gives NaN (0/0) or an infinity, which Math.round returns unchanged.
MathRoundDiv(num, den) ==
    IF den = 0
    THEN IF num = 0 THEN NaN ELSE IF num > 0 THEN Infinity ELSE NegInfinity
    ELSE Fin((2 * num + den) \div (2 * den))

-----------------------------------------------------------------------------
(* createAggregatedWeather (identical in the AWS, Azure and GCP providers) *)

Threw(msg) == [threw |-> TRUE, message |-> msg]
Returned(v) == [threw |-> FALSE, value |-> v]

NoDataMessage == "No weather data available from any source"

IndexOfSource(n) == CHOOSE i \in 1..NumSources : SOURCE_NAMES[i] = n

\* Keys inserted as each fetch completes (sources filled from per-fetch
\* callbacks) instead of after the join.
ObjectKeysByCompletion(sources) ==
    SelectSeq([k \in DOMAIN settleOrder |-> SOURCE_NAMES[settleOrder[k]]],
              LAMBDA n : n \in DOMAIN sources)

\* Object.keys / Object.values: insertion order, and fetchWeatherForLocation
\* inserts openweather, weatherapi, accuweather in that order.
ObjectKeys(sources) == SelectSeq(SOURCE_NAMES, LAMBDA n : n \in DOMAIN sources)

ObjectValues(sources) ==
    [i \in 1..Len(ObjectKeys(sources)) |-> sources[ObjectKeys(sources)[i]]]

\* tempSum, humiditySum, ...: the forEach loop adds a field only when it is
\* not undefined.
RECURSIVE SumOf(_, _)
SumOf(values, f) ==
    IF values = << >> THEN 0
    ELSE (IF Has(Head(values), f) THEN Head(values)[f] ELSE 0) + SumOf(Tail(values), f)

\* validSources: counts the sources whose temperature is not undefined.
RECURSIVE CountOf(_, _)
CountOf(values, f) ==
    IF values = << >> THEN 0
    ELSE (IF Has(Head(values), f) THEN 1 ELSE 0) + CountOf(Tail(values), f)

\* aggregated.descriptions: pushes every truthy description, in loop order.
RECURSIVE DescriptionsOf(_)
DescriptionsOf(values) ==
    IF values = << >> THEN << >>
    ELSE (IF Has(Head(values), "description") /\ Head(values).description # ""
          THEN <<Head(values).description>> ELSE << >>)
         \o DescriptionsOf(Tail(values))

\* createAggregatedWeather without its sourceCount === 0 guard.
createAggregatedWeatherUnguarded(sources) ==
    LET values == ObjectValues(sources)
        sourceCount == Len(ObjectKeys(sources))
        validSources == CountOf(values, "temperature")
    IN  Returned(
          [temperature   |-> MathRoundDiv(SumOf(values, "temperature"), validSources),
           humidity      |-> MathRoundDiv(SumOf(values, "humidity"), validSources),
           pressure      |-> MathRoundDiv(SumOf(values, "pressure"), validSources),
           windSpeed     |-> MathRoundDiv(SumOf(values, "windSpeed"), validSources),
           windDirection |-> MathRoundDiv(SumOf(values, "windDirection"), validSources),
           visibility    |-> MathRoundDiv(SumOf(values, "visibility"), validSources),
           cloudiness    |-> MathRoundDiv(SumOf(values, "cloudiness"), validSources),
           descriptions  |-> DescriptionsOf(values),
           confidence    |-> MathRoundDiv(validSources * 100, sourceCount)])

createAggregatedWeather(sources) ==
    LET values == ObjectValues(sources)
        sourceCount == Len(ObjectKeys(sources))
        validSources == CountOf(values, "temperature")
    IN  IF sourceCount = 0
        THEN Threw(NoDataMessage)
        ELSE Returned(
          [temperature   |-> MathRoundDiv(SumOf(values, "temperature"), validSources),
           humidity      |-> MathRoundDiv(SumOf(values, "humidity"), validSources),
           pressure      |-> MathRoundDiv(SumOf(values, "pressure"), validSources),
           windSpeed     |-> MathRoundDiv(SumOf(values, "windSpeed"), validSources),
           windDirection |-> MathRoundDiv(SumOf(values, "windDirection"), validSources),
           visibility    |-> MathRoundDiv(SumOf(values, "visibility"), validSources),
           cloudiness    |-> MathRoundDiv(SumOf(values, "cloudiness"), validSources),
           descriptions  |-> DescriptionsOf(values),
           confidence    |-> MathRoundDiv(validSources * 100, sourceCount)])

IsSettled(r) == r # Pending

\* aggregatedData.sources as fetchWeatherForLocation fills it from the settled
\* results: one key per fulfilled branch, nothing for a rejected one.
SourcesOf(results) ==
    [n \in { SOURCE_NAMES[i] :
                i \in { j \in 1..NumSources :
                           IsSettled(results[j]) /\ results[j].status = "fulfilled" } }
        |-> results[IndexOfSource(n)].value]

-----------------------------------------------------------------------------
(* The aggregation core of each provider: fetchWeatherForLocation from the  *)
(* three settled fetches and the outcome of the store to what it returns or *)
(* throws                                                                   *)

\* storeWeatherData's put either stores or fails, and each provider's catch
\* rethrows the SDK's error: put is Fulfilled("stored") or Rejected(...).

\* AWS Lambda (part_002:126-170).
fetchWeatherForLocationAWS(results, put) ==
    LET sources == [n \in { SOURCE_NAMES[i] :
                              i \in { j \in 1..NumSources :
                                         results[j].status = "fulfilled" } }
                       |-> results[IndexOfSource(n)].value]
        aggregated == createAggregatedWeather(sources)
    IN  IF aggregated.threw THEN Threw(aggregated.message)
        ELSE IF put.status = "rejected" THEN Threw(put.reason)
        ELSE Returned([cloudProvider |-> "aws", sources |-> sources,
                       aggregated |-> aggregated.value])

\* The Azure provider's means divided by the number of sources that answered.
createAggregatedWeatherOverSources(sources) ==
    LET values == ObjectValues(sources)
        sourceCount == Len(ObjectKeys(sources))
        validSources == CountOf(values, "temperature")
    IN  IF sourceCount = 0
        THEN Threw(NoDataMessage)
        ELSE Returned(
          [temperature   |-> MathRoundDiv(SumOf(values, "temperature"), sourceCount),
           humidity      |-> MathRoundDiv(SumOf(values, "humidity"), sourceCount),
           pressure      |-> MathRoundDiv(SumOf(values, "pressure"), validSources),
           windSpeed     |-> MathRoundDiv(SumOf(values, "windSpeed"), validSources),
           windDirection |-> MathRoundDiv(SumOf(values, "windDirection"), validSources),
           visibility    |-> MathRoundDiv(SumOf(values, "visibility"), validSources),
           cloudiness    |-> MathRoundDiv(SumOf(values, "cloudiness"), validSources),
           descriptions  |-> DescriptionsOf(values),
           confidence    |-> MathRoundDiv(validSources * 100, sourceCount)])

\* createAggregatedWeather of the Azure Function (part_001:321-369).
createAggregatedWeatherAzure(sources) ==
    LET values == ObjectValues(sources)
        sourceCount == Len(ObjectKeys(sources))
        validSources == CountOf(values, "temperature")
    IN  IF sourceCount = 0
        THEN Threw(NoDataMessage)
        ELSE Returned(
          [temperature   |-> MathRoundDiv(SumOf(values, "temperature"), validSources),
           humidity      |-> MathRoundDiv(SumOf(values, "humidity"), validSources),
           pressure      |-> MathRoundDiv(SumOf(values, "pressure"), validSources),
           windSpeed     |-> MathRoundDiv(SumOf(values, "windSpeed"), validSources),
           windDirection |-> MathRoundDiv(SumOf(values, "windDirection"), validSources),
           visibility    |-> MathRoundDiv(SumOf(values, "visibility"), validSources),
           cloudiness    |-> MathRoundDiv(SumOf(values, "cloudiness"), validSources),
           descriptions  |-> DescriptionsOf(values),
           confidence    |-> MathRoundDiv(validSources * 100, sourceCount)])

\* Azure Function (part_001:153-192).
fetchWeatherForLocationAzure(results, put) ==
    LET sources == [n \in { SOURCE_NAMES[i] :
                              i \in { j \in 1..NumSources :
                                         results[j].status = "fulfilled" } }
                       |-> results[IndexOfSource(n)].value]
        aggregated == createAggregatedWeatherAzure(sources)
    IN  IF aggregated.threw THEN Threw(aggregated.message)
        ELSE IF put.status = "rejected" THEN Threw(put.reason)
        ELSE Returned([cloudProvider |-> "azure", sources |-> sources,
                       aggregated |-> aggregated.value])

\* createAggregatedWeather of the GCP function (gcp/index.js:333-381).
createAggregatedWeatherGCP(sources) ==
    LET values == ObjectValues(sources)
        sourceCount == Len(ObjectKeys(sources))
        validSources == CountOf(values, "temperature")
    IN  IF sourceCount = 0
        THEN Threw(NoDataMessage)
        ELSE Returned(
          [temperature   |-> MathRoundDiv(SumOf(values, "temperature"), validSources),
           humidity      |-> MathRoundDiv(SumOf(values, "humidity"), validSources),
           pressure      |-> MathRoundDiv(SumOf(values, "pressure"), validSources),
           windSpeed     |-> MathRoundDiv(SumOf(values, "windSpeed"), validSources),
           windDirection |-> MathRoundDiv(SumOf(values, "windDirection"), validSources),
           visibility    |-> MathRoundDiv(SumOf(values, "visibility"), validSources),
           cloudiness    |-> MathRoundDiv(SumOf(values, "cloudiness"), validSources),
           descriptions  |-> DescriptionsOf(values),
           confidence    |-> MathRoundDiv(validSources * 100, sourceCount)])

\* GCP function (gcp/index.js:165-198).
fetchWeatherForLocationGCP(results, put) ==
    LET sources == [n \in { SOURCE_NAMES[i] :
                              i \in { j \in 1..NumSources :
                                         results[j].status = "fulfilled" } }
                       |-> results[IndexOfSource(n)].value]
        aggregated == createAggregatedWeatherGCP(sources)
    IN  IF aggregated.threw THEN Threw(aggregated.message)
        ELSE IF put.status = "rejected" THEN Threw(put.reason)
        ELSE Returned([cloudProvider |-> "gcp", sources |-> sources,
                       aggregated |-> aggregated.value])

-----------------------------------------------------------------------------
(* SpecAgg: one fetchWeatherForLocation call, from its three concurrent     *)
(* source fetches to the aggregate                                          *)

\* Promise.all in place of Promise.allSettled: the await ends at the first
\* rejection.
AllOrFirstRejection(rs) ==
    \/ \A i \in DOMAIN rs : IsSettled(rs[i])
    \/ \E i \in DOMAIN rs : IsSettled(rs[i]) /\ rs[i].status = "rejected"

\* Promise.allSettled resolves once every promise has settled.
AllSettled(rs) == \A i \in DOMAIN rs : IsSettled(rs[i])

ProvIdle ==
    /\ hpc = "unused" /\ event = Pending /\ secrets = Pending
    /\ loc = << >> /\ sink = << >> /\ response = Pending

XCIdle ==
    /\ xpc = "unused" /\ xevent = Pending /\ cloudPromises = << >>
    /\ xsink = << >> /\ xresponse = Pending

UIIdle ==
    /\ uipc = "unused" /\ uiEnv = Pending /\ routeResponse = Pending
    /\ hook = Pending /\ fetches = 0

CalcIdle == calcIn = Pending /\ calcOut = Pending

\* Lines 120-124: the three fetches are started together.
InitAgg ==
    /\ weatherResults = [s \in 1..NumSources |-> Pending]
    /\ settleOrder = << >>
    /\ aggregatedOut = Pending
    /\ ProvIdle /\ XCIdle /\ UIIdle /\ CalcIdle

\* One of the fetches completes, with a reading or with a failure.
Settle(s) ==
    /\ weatherResults[s] = Pending
    /\ \E r \in SettledSourceResults :
          weatherResults' = [weatherResults EXCEPT ![s] = r]
    /\ settleOrder' = Append(settleOrder, s)
    /\ UNCHANGED <<aggregatedOut, provVars, xcVars, uiVars, calcVars>>

\* Lines 126-165: once all three have settled, build sources from the results
\* and aggregate them.
Aggregate ==
    /\ aggregatedOut = Pending
    /\ AllSettled(weatherResults)
    /\ aggregatedOut' = createAggregatedWeather(SourcesOf(weatherResults))
    /\ UNCHANGED <<weatherResults, settleOrder, provVars, xcVars, uiVars, calcVars>>

NextAgg ==
    \/ \E s \in 1..NumSources : Settle(s)
    \/ Aggregate

SpecAgg == InitAgg /\ [][NextAgg]_vars

AggReturned == aggregatedOut # Pending /\ ~aggregatedOut.threw

FulfilledIdx == { i \in 1..NumSources : weatherResults[i].status = "fulfilled" }

WithMetric(m) == { i \in FulfilledIdx : Has(weatherResults[i].value, m) }

RECURSIVE SetSum(_, _)
SetSum(S, m) ==
    IF S = {} THEN 0
    ELSE LET i == CHOOSE j \in S : TRUE
         IN  weatherResults[i].value[m] + SetSum(S \ {i}, m)

Abs(x) == IF x < 0 THEN 0 - x ELSE x

\* v is the mean sum/n rounded to the nearest unit: it is finite and lies
\* within half a unit of the mean.
IsRoundedMean(x, sum, n) == IsFinite(x) /\ 2 * Abs(n * x.v - sum) <= n

\* C1: with N = 3 attempted sources, confidence = round(100 * k / 3), k being
\* the number of sources that supplied a temperature (33, 67, 100).
C1_ConfidenceOverAttempted ==
    AggReturned =>
        LET k == Cardinality(WithMetric("temperature"))
        IN  aggregatedOut.value.confidence =
                Fin(CASE k = 0 -> 0 [] k = 1 -> 33 [] k = 2 -> 67 [] k = 3 -> 100)

\* C2: every numeric metric is the mean over exactly the successful sources
\* in which that metric is present (absent values are not averaged in as 0).
C2_MeanOverPresent ==
    AggReturned =>
        \A m \in Metrics :
            WithMetric(m) # {} =>
                IsRoundedMean(aggregatedOut.value[m], SetSum(WithMetric(m), m),
                              Cardinality(WithMetric(m)))

C25_FiniteAggregate ==
    AggReturned =>
        /\ \A m \in {"temperature", "humidity", "pressure", "windSpeed", "confidence"} :
              IsFinite(aggregatedOut.value[m])
        /\ aggregatedOut.value.confidence.v \in 0..100

\* The provider's result with its cloudProvider tag replaced.
Retagged(outcome, tag) ==
    IF outcome.threw THEN outcome
    ELSE Returned([outcome.value EXCEPT !.cloudProvider = tag])

DescriptionFrom(s) ==
    IF weatherResults[s].status = "fulfilled"
         /\ Has(weatherResults[s].value, "description")
         /\ weatherResults[s].value.description # ""
    THEN <<weatherResults[s].value.description>>
    ELSE << >>

\* C20: descriptions holds every non-empty description of the successful
\* sources, duplicates kept, in attempt order (openweather, weatherapi,
\* accuweather), whatever the order in which the fetches completed.
C20_DescriptionsInAttemptOrder ==
    AggReturned =>
        aggregatedOut.value.descriptions =
            DescriptionFrom(1) \o DescriptionFrom(2) \o DescriptionFrom(3)

\* weatherapi completed first, accuweather repeats its description.
C20_Witness ==
    /\ AggReturned
    /\ settleOrder = <<2, 3, 1>>
    /\ aggregatedOut.value.descriptions = <<"light rain", "clear sky", "clear sky">>

-----------------------------------------------------------------------------
(* Spec: one invocation of the provider handler (AWS; the Azure and GCP     *)
(* handlers have the same structure)                                        *)

MaxBatch == 2

DEFAULT_LOCATIONS ==
    << [id |-> "new-york", name |-> "New York"],
       [id |-> "london", name |-> "London"],
       [id |-> "tokyo", name |-> "Tokyo"],
       [id |-> "sydney", name |-> "Sydney"],
       [id |-> "paris", name |-> "Paris"],
       [id |-> "moscow", name |-> "Moscow"],
       [id |-> "beijing", name |-> "Beijing"],
       [id |-> "mumbai", name |-> "Mumbai"] >>

\* A location given as free text (a JavaScript string), and an absent one.
Str(t) == [text |-> t]
Undefined == [undefined |-> TRUE]
IsString(l) == "text" \in DOMAIN l

\* Requests: a specific location (a string, geocoded), or a batch of location
\* objects (event.locations, a prefix of the defaults here).
Events ==
    { [specificLocation |-> c, locations |-> SubSeq(DEFAULT_LOCATIONS, 1, n)] :
        c \in {Str("Paris"), Undefined}, n \in 0..MaxBatch }

\* What each source answers when its fetch succeeds during a handler run.
ObservedBy(s) ==
    CASE s = 1 -> { [temperature |-> 220, humidity |-> 60, pressure |-> 1013,
                     windSpeed |-> 35, windDirection |-> 180, visibility |-> 10000,
                     cloudiness |-> 20, description |-> "clear sky"] }
      [] s = 2 -> { [temperature |-> 240, humidity |-> 65, pressure |-> 1010,
                     windSpeed |-> 42, windDirection |-> 200, visibility |-> 8000,
                     cloudiness |-> 40, description |-> "light rain"] }
      [] s = 3 -> { [temperature |-> 235, pressure |-> 1016,
                     windSpeed |-> 50, windDirection |-> 90, visibility |-> 9000,
                     cloudiness |-> 75, description |-> ""] }

SecretsMessage == "Unable to retrieve API keys from Secrets Manager"
GeocodeMessage == "Location not found"
StoreMessage == "DynamoDB put failed"

\* geocodeLocation's result for a city name.
Geocode(name) == [id |-> "paris-fr", name |-> "Paris, FR"]

\* The state of a fetchWeatherForLocation call right after it is entered: a
\* string is geocoded first, an object starts its three fetches at once.
NewCall(location) ==
    [location |-> location,
     pc |-> IF IsString(location) THEN "geocoding" ELSE "fetching",
     locationId |-> IF IsString(location) THEN "" ELSE location.id,
     src |-> [s \in 1..NumSources |-> Pending],
     agg |-> Pending,
     store |-> "none",
     value |-> Pending,
     reason |-> ""]

InitProv ==
    /\ hpc = "getSecrets"
    /\ event \in Events
    /\ secrets = Pending
    /\ loc = << >>
    /\ sink = << >>
    /\ response = Pending

AggIdle == weatherResults = << >> /\ settleOrder = << >> /\ aggregatedOut = Pending

Init == InitProv /\ AggIdle /\ XCIdle /\ UIIdle /\ CalcIdle

createResponse(statusCode, body) == [statusCode |-> statusCode, body |-> body]

\* getSecrets succeeds; the handler goes on (lines 35-47) to call
\* fetchWeatherForLocation for the specific location or for every location.
GetSecretsOk ==
    /\ hpc = "getSecrets"
    /\ secrets' = [ok |-> TRUE]
    /\ IF event.specificLocation # Undefined
       THEN /\ loc' = <<NewCall(event.specificLocation)>>
            /\ hpc' = "awaitSingle"
       ELSE /\ loc' = [i \in 1..Len(event.locations) |-> NewCall(event.locations[i])]
            /\ hpc' = "awaitBatch"
    /\ UNCHANGED <<event, sink, response, aggVars, xcVars, uiVars, calcVars>>

\* A handler that logs the getSecrets failure and goes on without keys.
GetSecretsFailContinues ==
    /\ hpc = "getSecrets"
    /\ secrets' = [ok |-> FALSE]
    /\ IF event.specificLocation # Undefined
       THEN /\ loc' = <<NewCall(event.specificLocation)>>
            /\ hpc' = "awaitSingle"
       ELSE /\ loc' = [i \in 1..Len(event.locations) |-> NewCall(event.locations[i])]
            /\ hpc' = "awaitBatch"
    /\ UNCHANGED <<event, sink, response, aggVars, xcVars, uiVars, calcVars>>

\* getSecrets throws; the handler's catch answers 500.
GetSecretsFail ==
    /\ hpc = "getSecrets"
    /\ secrets' = [ok |-> FALSE]
    /\ hpc' = "done"
    /\ response' = createResponse(500,
           [success |-> FALSE, error |-> SecretsMessage, cloudProvider |-> "aws"])
    /\ UNCHANGED <<event, loc, sink, aggVars, xcVars, uiVars, calcVars>>

GeocodeOk(i) ==
    /\ loc[i].pc = "geocoding"
    /\ loc' = [loc EXCEPT ![i].pc = "fetching",
                          ![i].locationId = Geocode(loc[i].location).id]
    /\ UNCHANGED <<hpc, event, secrets, sink, response, aggVars, xcVars, uiVars, calcVars>>

GeocodeFail(i) ==
    /\ loc[i].pc = "geocoding"
    /\ loc' = [loc EXCEPT ![i].pc = "rejected", ![i].reason = GeocodeMessage]
    /\ UNCHANGED <<hpc, event, secrets, sink, response, aggVars, xcVars, uiVars, calcVars>>

\* One of the three source fetches fulfils with a normalised reading.
SourceFulfil(i, s) ==
    /\ loc[i].pc = "fetching"
    /\ loc[i].src[s] = Pending
    /\ \E r \in ObservedBy(s) :
          loc' = [loc EXCEPT ![i].src[s] = Fulfilled(r)]
    /\ UNCHANGED <<hpc, event, secrets, sink, response, aggVars, xcVars, uiVars, calcVars>>

\* One of the three source fetches rejects (timeout, HTTP error, bad shape).
SourceReject(i, s) ==
    /\ loc[i].pc = "fetching"
    /\ loc[i].src[s] = Pending
    /\ \E m \in FetchFailures :
          loc' = [loc EXCEPT ![i].src[s] = Rejected(m)]
    /\ UNCHANGED <<hpc, event, secrets, sink, response, aggVars, xcVars, uiVars, calcVars>>

aggregatedDataOf(l, aggregated) ==
    [locationId |-> l.locationId,
     cloudProvider |-> "aws",
     sources |-> SourcesOf(l.src),
     aggregated |-> aggregated]

\* A join that gives up on the location as soon as one source has failed,
\* passing that source's error on.
JoinFailFast(i) ==
    /\ loc[i].pc = "fetching"
    /\ AllSettled(loc[i].src)
    /\ LET a == createAggregatedWeather(SourcesOf(loc[i].src))
           failedSrc == { s \in 1..NumSources : loc[i].src[s].status = "rejected" }
       IN  loc' = IF failedSrc # {}
                  THEN [loc EXCEPT ![i].pc = "rejected",
                                   ![i].reason =
                                       loc[i].src[CHOOSE s \in failedSrc : TRUE].reason]
                  ELSE IF a.threw
                  THEN [loc EXCEPT ![i].pc = "rejected", ![i].agg = a,
                                   ![i].reason = a.message]
                  ELSE [loc EXCEPT ![i].pc = "storing", ![i].agg = a,
                                   ![i].value = aggregatedDataOf(loc[i], a.value)]
    /\ UNCHANGED <<hpc, event, secrets, sink, response, aggVars, xcVars, uiVars, calcVars>>

\* The continuation of `await Promise.allSettled(weatherPromises)`: fill
\* sources, call createAggregatedWeather, and start the store (lines 128-168).
Join(i) ==
    /\ loc[i].pc = "fetching"
    /\ AllSettled(loc[i].src)
    /\ LET a == createAggregatedWeather(SourcesOf(loc[i].src))
       IN  loc' = IF a.threw
                  THEN [loc EXCEPT ![i].pc = "rejected", ![i].agg = a,
                                   ![i].reason = a.message]
                  ELSE [loc EXCEPT ![i].pc = "storing", ![i].agg = a,
                                   ![i].value = aggregatedDataOf(loc[i], a.value)]
    /\ UNCHANGED <<hpc, event, secrets, sink, response, aggVars, xcVars, uiVars, calcVars>>

\* storeWeatherData: the put succeeds and fetchWeatherForLocation returns.
StoreOk(i) ==
    /\ loc[i].pc = "storing"
    /\ sink' = Append(sink, [location_id |-> loc[i].locationId,
                             cloud_provider |-> "aws",
                             weather_data |-> loc[i].value])
    /\ loc' = [loc EXCEPT ![i].pc = "fulfilled", ![i].store = "ok"]
    /\ UNCHANGED <<hpc, event, secrets, response, aggVars, xcVars, uiVars, calcVars>>

\* storeWeatherData: the put fails; the catch logs and rethrows (line 367),
\* so the awaiting fetchWeatherForLocation rejects.
StoreFail(i) ==
    /\ loc[i].pc = "storing"
    /\ loc' = [loc EXCEPT ![i].pc = "rejected", ![i].store = "failed",
                          ![i].reason = StoreMessage]
    /\ UNCHANGED <<hpc, event, secrets, sink, response, aggVars, xcVars, uiVars, calcVars>>

\* An await that only resumes on success.
LocFulfilled(l) == l.pc = "fulfilled"

LocSettled(l) == l.pc \in {"fulfilled", "rejected"}

\* Single-location request: the awaited call returns (200) or throws (500).
RespondSingle ==
    /\ hpc = "awaitSingle"
    /\ LocSettled(loc[1])
    /\ response' = IF loc[1].pc = "fulfilled"
                   THEN createResponse(200, loc[1].value)
                   ELSE createResponse(500,
                            [success |-> FALSE, error |-> loc[1].reason,
                             cloudProvider |-> "aws"])
    /\ hpc' = "done"
    /\ UNCHANGED <<event, secrets, loc, sink, aggVars, xcVars, uiVars, calcVars>>

\* A batch that gives up at the first failed location.
RECURSIVE SuccessfulUntilFailure(_)
SuccessfulUntilFailure(ls) ==
    IF ls = << >> \/ Head(ls).pc # "fulfilled" THEN << >>
    ELSE <<Head(ls).value>> \o SuccessfulUntilFailure(Tail(ls))

\* successful: the values of the fulfilled results, in location order.
RECURSIVE Successful(_)
Successful(ls) ==
    IF ls = << >> THEN << >>
    ELSE (IF Head(ls).pc = "fulfilled" THEN <<Head(ls).value>> ELSE << >>)
         \o Successful(Tail(ls))

\* failed: location and message of the rejected results, in location order.
RECURSIVE FailedOf(_)
FailedOf(ls) ==
    IF ls = << >> THEN << >>
    ELSE (IF Head(ls).pc = "rejected"
          THEN <<[location |-> Head(ls).location, error |-> Head(ls).reason]>>
          ELSE << >>)
         \o FailedOf(Tail(ls))

BatchBody(ls) ==
    LET successful == Successful(ls)
        failed == FailedOf(ls)
        summary == [total |-> Len(ls), successful |-> Len(successful),
                    failed |-> Len(failed)]
    IN  IF Len(failed) > 0
        THEN [success |-> TRUE, cloudProvider |-> "aws", summary |-> summary,
              data |-> successful, errors |-> failed]
        ELSE [success |-> TRUE, cloudProvider |-> "aws", summary |-> summary,
              data |-> successful]

\* The promise of a fetchWeatherForLocation call, as Promise.allSettled sees it.
LocResult(l) ==
    IF l.pc = "fulfilled" THEN Fulfilled(l.value)
    ELSE IF l.pc = "rejected" THEN Rejected(l.reason)
    ELSE Pending

\* Batch request: the continuation of Promise.allSettled over the locations.
RespondBatch ==
    /\ hpc = "awaitBatch"
    /\ AllSettled([i \in DOMAIN loc |-> LocResult(loc[i])])
    /\ response' = createResponse(200, BatchBody(loc))
    /\ hpc' = "done"
    /\ UNCHANGED <<event, secrets, loc, sink, aggVars, xcVars, uiVars, calcVars>>

Next ==
    \/ GetSecretsOk
    \/ GetSecretsFail
    \/ \E i \in DOMAIN loc : GeocodeOk(i)
    \/ \E i \in DOMAIN loc : GeocodeFail(i)
    \/ \E i \in DOMAIN loc, s \in 1..NumSources : SourceFulfil(i, s)
    \/ \E i \in DOMAIN loc, s \in 1..NumSources : SourceReject(i, s)
    \/ \E i \in DOMAIN loc : Join(i)
    \/ \E i \in DOMAIN loc : StoreOk(i)
    \/ \E i \in DOMAIN loc : StoreFail(i)
    \/ RespondSingle
    \/ RespondBatch

Spec == Init /\ [][Next]_vars

-----------------------------------------------------------------------------
(* Properties of the provider handler *)

AllFailed(l) ==
    \A s \in 1..NumSources : l.src[s] # Pending /\ l.src[s].status = "rejected"

SinkHas(id) == \E k \in DOMAIN sink : sink[k].location_id = id

IsBatch == event.specificLocation = Undefined

BodyErrors(body) == IF "errors" \in DOMAIN body THEN body.errors ELSE << >>

\* C4: when all three source fetches of a location fail, its
\* fetchWeatherForLocation fails with the 'No weather data available from any
\* source' error, nothing is written to the sink for it and no
\* LocationAggregate reaches the caller.
C4_NoDataFails ==
    \A i \in DOMAIN loc :
        (AllFailed(loc[i]) /\ loc[i].pc # "fetching") =>
            /\ loc[i].pc = "rejected"
            /\ loc[i].reason = NoDataMessage
            /\ loc[i].value = Pending
            /\ ~SinkHas(loc[i].locationId)
            /\ hpc = "done" =>
                 IF IsBatch
                 THEN /\ \A k \in DOMAIN response.body.data :
                            response.body.data[k].locationId # loc[i].locationId
                      /\ \E k \in DOMAIN BodyErrors(response.body) :
                            /\ BodyErrors(response.body)[k].location = loc[i].location
                            /\ BodyErrors(response.body)[k].error = NoDataMessage
                 ELSE /\ response.statusCode = 500
                      /\ response.body.error = NoDataMessage

C4_Witness ==
    /\ hpc = "done"
    /\ \E i \in DOMAIN loc : AllFailed(loc[i]) /\ loc[i].pc = "rejected"

\* C5: createAggregatedWeather runs only once each of the three branches has
\* settled, whatever the first outcome was, and a pending branch stays able
\* to fulfil after a sibling failed (no cancellation).
C5_JoinAfterAllSettled ==
    \A i \in DOMAIN loc :
        /\ loc[i].agg # Pending => \A s \in 1..NumSources : loc[i].src[s] # Pending
        /\ \A s \in 1..NumSources :
              (loc[i].pc = "fetching" /\ loc[i].src[s] = Pending) =>
                  /\ loc[i].agg = Pending
                  /\ ENABLED SourceFulfil(i, s)

C5_Witness ==
    \E i \in DOMAIN loc :
        /\ loc[i].agg # Pending
        /\ \E s \in 1..NumSources : loc[i].src[s].status = "rejected"
        /\ \E s \in 1..NumSources : loc[i].src[s].status = "fulfilled"

\* C6: in a batch response every requested location is in exactly one of
\* data or errors (with its location and cause), successful + failed = total,
\* and each location whose pipeline succeeded is returned whatever happened
\* to the others.
C6_BatchPartition ==
    (hpc = "done" /\ IsBatch /\ secrets.ok) =>
        /\ response.statusCode = 200
        /\ LET body == response.body
               data == body.data
               errors == BodyErrors(body)
               locs == event.locations
           IN  /\ \A i \in 1..Len(locs) :
                     LET inData == { k \in DOMAIN data : data[k].locationId = locs[i].id }
                         inErr == { k \in DOMAIN errors : errors[k].location = locs[i] }
                     IN  /\ Cardinality(inData) + Cardinality(inErr) = 1
                         /\ loc[i].pc = "fulfilled" =>
                               \E k \in inData : data[k] = loc[i].value
                         /\ \A k \in inErr :
                               errors[k].error = loc[i].reason /\ loc[i].reason # ""
               /\ body.summary.successful + body.summary.failed = body.summary.total
               /\ body.summary.total = Len(locs)
               /\ body.summary.successful = Len(data)
               /\ body.summary.failed = Len(errors)

C6_Witness ==
    /\ hpc = "done" /\ IsBatch /\ secrets.ok
    /\ Len(response.body.data) = 1
    /\ Len(BodyErrors(response.body)) = 1
    /\ loc[1].pc = "rejected" /\ loc[2].pc = "fulfilled"

\* C7: a failed persistence write is swallowed: the location's
\* fetchWeatherForLocation still returns its aggregate, and the response does
\* not fail or list the location as failed.
C7_SinkFailureSwallowed ==
    \A i \in DOMAIN loc :
        loc[i].store = "failed" =>
            /\ loc[i].pc = "fulfilled"
            /\ hpc = "done" =>
                  /\ response.statusCode = 200
                  /\ \A k \in DOMAIN BodyErrors(response.body) :
                        BodyErrors(response.body)[k].location # loc[i].location

\* C17: when getSecrets fails the request fails as a whole with an error
\* response, and no fetchWeatherForLocation call (hence no geocoding call and
\* no source fetch) and no persistence write is made, before or after.
C17_CredentialsFailureAborts ==
    (secrets # Pending /\ ~secrets.ok) =>
        /\ hpc = "done"
        /\ response.statusCode = 500
        /\ response.body.success = FALSE
        /\ response.body.error = SecretsMessage
        /\ loc = << >>
        /\ sink = << >>

C17_Witness ==
    /\ secrets = [ok |-> FALSE]
    /\ hpc = "done"
    /\ response.statusCode = 500
    /\ Len(event.locations) > 0

SomeFulfilled(l) ==
    \E s \in 1..NumSources : l.src[s] # Pending /\ l.src[s].status = "fulfilled"

SomeRejected(l) ==
    \E s \in 1..NumSources : l.src[s] # Pending /\ l.src[s].status = "rejected"

\* C21: once the three fetches of a location have settled with at least one
\* success, the call goes on to the store with a LocationAggregate holding
\* exactly the fulfilled readings, and returns it when the store succeeds,
\* whichever other sources failed; the only failure such a call can end in is
\* the store's, never a source's, and the aggregate then reaches the response.
C21_PartialSourcesStillAggregate ==
    \A i \in DOMAIN loc :
        (SomeFulfilled(loc[i]) /\ AllSettled(loc[i].src) /\ loc[i].pc # "fetching") =>
            /\ loc[i].agg # Pending /\ ~loc[i].agg.threw
            /\ loc[i].value # Pending
            /\ loc[i].value.aggregated = loc[i].agg.value
            /\ DOMAIN loc[i].value.sources =
                   { SOURCE_NAMES[s] : s \in { t \in 1..NumSources :
                                                 loc[i].src[t].status = "fulfilled" } }
            /\ loc[i].pc \in {"storing", "fulfilled", "rejected"}
            /\ loc[i].pc = "rejected" =>
                   loc[i].store = "failed" /\ loc[i].reason = StoreMessage
            /\ loc[i].store = "ok" =>
                   /\ loc[i].pc = "fulfilled"
                   /\ hpc = "done" =>
                         IF IsBatch
                         THEN \E k \in DOMAIN response.body.data :
                                 response.body.data[k] = loc[i].value
                         ELSE /\ response.statusCode = 200
                              /\ response.body = loc[i].value

C21_Witness ==
    /\ hpc = "done"
    /\ \E i \in DOMAIN loc :
          /\ loc[i].pc = "fulfilled"
          /\ Cardinality({ s \in 1..NumSources : loc[i].src[s].status = "rejected" }) = 2
          /\ loc[i].value.aggregated.confidence = Fin(100)

-----------------------------------------------------------------------------
(* SpecXC: one invocation of the cross-cloud aggregation handler *)

ALL_PROVIDERS == <<"aws", "azure", "gcp">>

ProviderSet == { ALL_PROVIDERS[i] : i \in DOMAIN ALL_PROVIDERS }

\* The values of the providers parameter after split(','): every ordering of
\* every non-empty subset of the providers, the list [''] of an empty
\* parameter, and << >> when the parameter is absent.
ProviderLists ==
    { << >>, <<"">> }
    \cup { <<a>> : a \in ProviderSet }
    \cup { q \in ProviderSet \X ProviderSet : q[1] # q[2] }
    \cup { q \in ProviderSet \X ProviderSet \X ProviderSet :
               q[1] # q[2] /\ q[1] # q[3] /\ q[2] # q[3] }

\* An invocation with a query string: queryStringParameters carries the
\* location and the providers, and there is no body.
QueryEvent(location, providers) ==
    [queryStringParameters |-> [location |-> location, providers |-> providers],
     body |-> Undefined]

\* The invocation the aggregation route makes for a location (route.ts:
\* 30-40): a POST to AGGREGATION_LAMBDA_URL as configured, the location in
\* the JSON body and nothing added to the URL, so that the event carries no
\* query string parameters.
RouteEvent(location) ==
    [queryStringParameters |-> Undefined,
     body |-> [location |-> Str(location), action |-> "aggregate-weather"]]

\* Lines 21-23: location and providers are read from
\* event.queryStringParameters (undefined when there is none); the body is
\* kept here to tell what was sent.
ParsedEvent(e) ==
    [location |-> IF e.queryStringParameters = Undefined THEN Undefined
                  ELSE e.queryStringParameters.location,
     providers |-> IF e.queryStringParameters = Undefined THEN << >>
                   ELSE e.queryStringParameters.providers,
     body |-> e.body]

XEvents ==
    { ParsedEvent(QueryEvent(l, p)) : l \in {Undefined, Str("paris-fr")}, p \in ProviderLists }
    \cup { ParsedEvent(RouteEvent(l)) : l \in {"paris-fr"} }

\* const cloudProviders = ...providers?.split(',') || ['aws', 'azure', 'gcp']
cloudProvidersOf(e) == IF e.providers = << >> THEN ALL_PROVIDERS ELSE e.providers

Includes(list, x) == \E i \in DOMAIN list : list[i] = x

\* cloudPromises: one fetch per included provider, pushed in the fixed order
\* aws, azure, gcp (lines 26-38).
StartedPromises(e) ==
    LET fns == SelectSeq(ALL_PROVIDERS, LAMBDA p : Includes(cloudProvidersOf(e), p))
    IN  [k \in DOMAIN fns |-> [fn |-> fns[k], state |-> Pending]]

\* The aggregated block a provider reports for a location (temperature and
\* windSpeed in tenths).
ProviderAggregated(p) ==
    CASE p = "aws"   -> [temperature |-> 200, humidity |-> 60, pressure |-> 1013,
                         windSpeed |-> 35, cloudiness |-> 20]
      [] p = "azure" -> [temperature |-> 210, humidity |-> 64, pressure |-> 1011,
                         windSpeed |-> 40, cloudiness |-> 30]
      [] p = "gcp"   -> [temperature |-> 190, humidity |-> 62, pressure |-> 1012,
                         windSpeed |-> 31, cloudiness |-> 25]

SourceTag(p) ==
    CASE p = "aws" -> "aws-lambda" [] p = "azure" -> "azure-function"
      [] p = "gcp" -> "gcp-cloudrun"

ProviderItem(p, id) ==
    [locationId |-> id, cloudProvider |-> p, aggregated |-> ProviderAggregated(p)]

\* Timestamps: an instant in seconds, or a value new Date() cannot parse
\* (undefined, garbage).
At(t) == [at |-> t]
InvalidDate == [invalid |-> TRUE]
Parsable(ts) == "at" \in DOMAIN ts

\* const now = new Date()
Now == 7200

\* The timestamp of a provider's reply: of the stored item or the Lambda's
\* body (AWS), of the provider's response (Azure, GCP).
ProviderTimestamp(p) ==
    CASE p = "aws" -> At(Now - 600) [] p = "azure" -> At(Now - 20)
      [] p = "gcp" -> At(Now - 10)

\* What fetchAWSWeatherData / fetchAzureWeatherData / fetchGCPWeatherData
\* return: the provider's single aggregate for a location, or its batch.
ProviderReply(p, location) ==
    [source |-> SourceTag(p),
     timestamp |-> ProviderTimestamp(p),
     data |-> IF IsString(location)
              THEN [isArray |-> FALSE, items |-> <<ProviderItem(p, location.text)>>]
              ELSE [isArray |-> TRUE,
                    items |-> <<ProviderItem(p, "new-york"), ProviderItem(p, "london")>>]]

ProviderFailure(p) ==
    CASE p = "aws" -> "AWS Lambda failed"
      [] p = "azure" -> "Azure Function URL not configured"
      [] p = "gcp" -> "GCP Function URL not configured"

InitXC ==
    /\ xpc = "start"
    /\ xevent \in XEvents
    /\ cloudPromises = << >>
    /\ xsink = << >>
    /\ xresponse = Pending
    /\ AggIdle /\ ProvIdle /\ UIIdle /\ CalcIdle

\* Lines 20-42: parse the parameters and start the provider fetches.
XStart ==
    /\ xpc = "start"
    /\ cloudPromises' = StartedPromises(xevent)
    /\ xpc' = "await"
    /\ UNCHANGED <<xevent, xsink, xresponse, aggVars, provVars, uiVars, calcVars>>

ProviderFulfil(k) ==
    /\ xpc = "await"
    /\ cloudPromises[k].state = Pending
    /\ cloudPromises' = [cloudPromises EXCEPT
           ![k].state = Fulfilled(ProviderReply(cloudPromises[k].fn, xevent.location))]
    /\ UNCHANGED <<xpc, xevent, xsink, xresponse, aggVars, provVars, uiVars, calcVars>>

ProviderReject(k) ==
    /\ xpc = "await"
    /\ cloudPromises[k].state = Pending
    /\ cloudPromises' = [cloudPromises EXCEPT
           ![k].state = Rejected(ProviderFailure(cloudPromises[k].fn))]
    /\ UNCHANGED <<xpc, xevent, xsink, xresponse, aggVars, provVars, uiVars, calcVars>>

\* results.forEach((result, index) => { const provider = cloudProviders[index]; ...
\* cloudData: the fulfilled results, keyed by the name at the result's index
\* in cloudProviders (kept in insertion order).
cloudDataOf(results, cloudProviders) ==
    LET idx == SelectSeq([k \in DOMAIN results |-> k],
                         LAMBDA k : results[k].status = "fulfilled")
    IN  [j \in DOMAIN idx |-> [provider |-> cloudProviders[idx[j]],
                                value |-> results[idx[j]].value]]

\* errors: the rejected results' messages, keyed the same way.
errorsOf(results, cloudProviders) ==
    LET idx == SelectSeq([k \in DOMAIN results |-> k],
                         LAMBDA k : results[k].status = "rejected")
    IN  [j \in DOMAIN idx |-> [provider |-> cloudProviders[idx[j]],
                                error |-> results[idx[j]].reason]]

KeysOf(obj) == [j \in DOMAIN obj |-> obj[j].provider]

ConsensusMetrics == <<"temperature", "humidity", "pressure", "windSpeed", "cloudiness">>

\* Consensus values are held in hundredths: a metric kept in tenths is scaled
\* by 10, one kept in units by 100.
ToHundredths(metric) == IF metric \in {"temperature", "windSpeed"} THEN 10 ELSE 100

\* dataPoints.map(point => point[metric]).filter(...): the defined values of
\* a metric, in the order of the data points.
RECURSIVE ValuesOf(_, _)
ValuesOf(dataPoints, metric) ==
    IF dataPoints = << >> THEN << >>
    ELSE (IF Has(Head(dataPoints), metric) THEN <<Head(dataPoints)[metric]>> ELSE << >>)
         \o ValuesOf(Tail(dataPoints), metric)

\* values.reduce((sum, val) => sum + val, 0) adds binary64 numbers from left
\* to right.  15.4 and 16.3 have no exact binary64 form, and the sum of 15.0,
\* 15.4, 16.3 and 18.0 is 64.7 (the double nearest to it) in every order of
\* addition but these two, where the partial sums are 34.3,
\* 49.699999999999996 and 64.69999999999999, one unit in the last place
\* lower.  Divided by 4 and multiplied by 100 the first gives 1617.5 and the
\* second 1617.4999999999998.
SumFallsShort(metric, values) ==
    /\ metric = "temperature"
    /\ values \in { <<163, 180, 154, 150>>, <<180, 163, 154, 150>> }

\* calculateConsensus: per metric, the mean of the defined values rounded to
\* two decimals; a metric without values is left out.  Where the double sum
\* falls short of an exact tie, Math.round goes down instead of up.
calculateConsensus(dataPoints) ==
    IF Len(dataPoints) = 0 THEN << >>
    ELSE LET present == { ConsensusMetrics[i] : i \in
                            { j \in DOMAIN ConsensusMetrics :
                                CountOf(dataPoints, ConsensusMetrics[j]) > 0 } }
         IN  [metric \in present |->
                 LET exact == MathRoundDiv(SumOf(dataPoints, metric) * ToHundredths(metric),
                                            CountOf(dataPoints, metric))
                 IN  IF SumFallsShort(metric, ValuesOf(dataPoints, metric))
                     THEN Fin(exact.v - 1) ELSE exact]

\* A metric that reached the aggregator as JSON null (a provider's NaN is
\* serialised as null): the data point lists it in nulls and carries no value.
IsNullAt(point, metric) == Has(point, "nulls") /\ metric \in point.nulls

\* The sum of the squares of the defined values of a metric.
RECURSIVE SumSqOf(_, _)
SumSqOf(values, f) ==
    IF values = << >> THEN 0
    ELSE (IF Has(Head(values), f) THEN Head(values)[f] * Head(values)[f] ELSE 0)
         + SumSqOf(Tail(values), f)

\* Math.sqrt, rounded down: the largest r in lo..hi with r * r <= x.
RECURSIVE ISqrtIn(_, _, _)
ISqrtIn(lo, hi, x) ==
    IF lo >= hi THEN lo
    ELSE LET mid == (lo + hi + 1) \div 2
         IN  IF mid * mid <= x THEN ISqrtIn(mid, hi, x) ELSE ISqrtIn(lo, mid - 1, x)

ISqrt(x) == ISqrtIn(0, 46340, x)

\* The sample standard deviation (divisor n - 1) in place of the population's.
SampleStdDev(n, s, ss, scale) ==
    LET q == n * ss - s * s
    IN  Fin((ISqrt((4 * scale * scale * q) \div (n * (n - 1))) + 1) \div 2)

\* Lines 358-360 for n values with sum s and sum of squares ss:
\*   mean = s / n; variance = sum((val - mean)^2) / n;
\*   Math.round(Math.sqrt(variance) * 100) / 100
\* in hundredths.  n * sum((val - mean)^2) = n * ss - s * s, and
\* round(y) = floor((floor(2y) + 1) / 2).
StdDev(n, s, ss, scale) ==
    LET q == n * ss - s * s
    IN  Fin((ISqrt((4 * scale * scale * q) \div (n * n)) + 1) \div 2)

\* calculateVariations: per metric with at least two defined values, their
\* population standard deviation rounded to two decimals; {} for fewer than
\* two data points.
calculateVariations(dataPoints) ==
    IF Len(dataPoints) <= 1 THEN << >>
    ELSE LET present == { ConsensusMetrics[i] : i \in
                            { j \in DOMAIN ConsensusMetrics :
                                CountOf(dataPoints, ConsensusMetrics[j]) > 1 } }
         IN  [metric \in present |->
                 StdDev(CountOf(dataPoints, metric), SumOf(dataPoints, metric),
                        SumSqOf(dataPoints, metric), ToHundredths(metric))]

\* dataPoints.map(point => point.temperature).filter(val => val !== undefined):
\* a null passes the filter, and Math.max / Math.min read it as 0.
RECURSIVE tempValuesOf(_)
tempValuesOf(dataPoints) ==
    IF dataPoints = << >> THEN << >>
    ELSE (IF Has(Head(dataPoints), "temperature") THEN <<Head(dataPoints).temperature>>
          ELSE IF IsNullAt(Head(dataPoints), "temperature") THEN <<0>>
          ELSE << >>)
         \o tempValuesOf(Tail(dataPoints))

MathMax(values) == CHOOSE x \in { values[i] : i \in DOMAIN values } :
                      \A i \in DOMAIN values : values[i] <= x

MathMin(values) == CHOOSE x \in { values[i] : i \in DOMAIN values } :
                      \A i \in DOMAIN values : values[i] >= x

\* A non-integer number num / den.
Ratio(num, den) == [num |-> num, den |-> den]

\* 100 - tempRange * 25 with tempRange in tenths of a degree: (200 - 5 r) / 2.
AgreementPenalty(tempValues) ==
    Ratio(200 - 5 * (MathMax(tempValues) - MathMin(tempValues)), 2)

\* calculateAgreement: Math.max(0, Math.round(100 - tempRange * 25)).
calculateAgreement(dataPoints) ==
    IF Len(dataPoints) <= 1 THEN 100
    ELSE IF Len(tempValuesOf(dataPoints)) <= 1 THEN 100
    ELSE LET a == AgreementPenalty(tempValuesOf(dataPoints))
             rounded == MathRoundDiv(a.num, a.den).v
         IN  IF rounded < 0 THEN 0 ELSE rounded

\* calculateReliability: dataAvailability and, for at least two temperature
\* values, temperatureAgreement = Math.max(0, 100 - tempRange * 25) (not
\* rounded); overall = Math.round((dataAvailability +
\* (temperatureAgreement || 100)) / 2), where || replaces 0 as well as
\* undefined.
calculateReliability(dataPoints, totalProviders) ==
    LET dataAvailability == Ratio(100 * Len(dataPoints), totalProviders)
        tempValues == tempValuesOf(dataPoints)
        hasAgreement == Len(dataPoints) > 1 /\ Len(tempValues) > 1
        penalty == AgreementPenalty(tempValues)
        temperatureAgreement == IF penalty.num < 0 THEN Ratio(0, 2) ELSE penalty
        orHundred == IF hasAgreement /\ temperatureAgreement.num # 0
                     THEN temperatureAgreement ELSE Ratio(200, 2)
        overall == MathRoundDiv(2 * dataAvailability.num
                                    + orHundred.num * dataAvailability.den,
                                4 * dataAvailability.den)
    IN  IF hasAgreement
        THEN [dataAvailability |-> dataAvailability,
              temperatureAgreement |-> temperatureAgreement,
              overall |-> overall]
        ELSE [dataAvailability |-> dataAvailability, overall |-> overall]

\* The ages (now - timestamp) of the parsable provider timestamps, in seconds.
RECURSIVE AgesOf(_)
AgesOf(cloudData) ==
    IF cloudData = << >> THEN << >>
    ELSE (IF Parsable(Head(cloudData).value.timestamp)
          THEN <<Now - Head(cloudData).value.timestamp.at>> ELSE << >>)
         \o AgesOf(Tail(cloudData))

RECURSIVE SeqSum(_)
SeqSum(q) == IF q = << >> THEN 0 ELSE Head(q) + SeqSum(Tail(q))

\* Lines 434-439: minutes = Math.round(averageAge / 60000), then thresholds.
ClassifyAge(sum, n) ==
    LET minutes == MathRoundDiv(sum, 60 * n).v
    IN  IF minutes < 5 THEN "very-fresh"
        ELSE IF minutes < 15 THEN "fresh"
        ELSE IF minutes < 60 THEN "moderate"
        ELSE "stale"

\* calculateDataFreshness
calculateDataFreshness(cloudData) ==
    LET ages == AgesOf(cloudData)
    IN  IF Len(ages) = 0 THEN "unknown"
        ELSE ClassifyAge(SeqSum(ages), Len(ages))

\* A loop that also counts every raw source reading of an item as a data
\* point of its provider.
RECURSIVE EntriesOfRaw(_)
EntriesOfRaw(cloudData) ==
    IF cloudData = << >> THEN << >>
    ELSE LET c == Head(cloudData)
             items == SelectSeq(c.value.data.items, LAMBDA it : Has(it, "aggregated"))
             raw == IF items # << >> /\ Has(items[1], "sources")
                    THEN ObjectValues(items[1].sources) ELSE << >>
         IN  [j \in DOMAIN items |->
                 [provider |-> c.provider, source |-> c.value.source, item |-> items[j]]]
             \o [j \in DOMAIN raw |->
                 [provider |-> c.provider, source |-> c.value.source,
                  item |-> [locationId |-> items[1].locationId, aggregated |-> raw[j]]]]
             \o EntriesOfRaw(Tail(cloudData))

\* The (provider, item) pairs the providers.forEach loop visits: each item of
\* an array, or the single object, provided it has an aggregated block.
RECURSIVE EntriesOf(_)
EntriesOf(cloudData) ==
    IF cloudData = << >> THEN << >>
    ELSE LET c == Head(cloudData)
             items == SelectSeq(c.value.data.items, LAMBDA it : Has(it, "aggregated"))
         IN  [j \in DOMAIN items |->
                 [provider |-> c.provider, source |-> c.value.source, item |-> items[j]]]
             \o EntriesOf(Tail(cloudData))

\* Keys of locationData in insertion order.
RECURSIVE LocationKeys(_, _)
LocationKeys(entries, seen) ==
    IF entries = << >> THEN << >>
    ELSE LET id == Head(entries).item.locationId
         IN  IF id \in seen THEN LocationKeys(Tail(entries), seen)
             ELSE <<id>> \o LocationKeys(Tail(entries), seen \cup {id})

NoProviderMessage == "No cloud provider data available"

\* Every location's providers list holding every entry, whatever its location.
ProvidersAtAny(entries, id) ==
    [j \in DOMAIN entries |-> [provider |-> entries[j].provider,
                                data |-> entries[j].item.aggregated]]

\* locationData[id].providers: the entries pushed under that locationId, in
\* loop order (lines 237-250, 258-271).
ProvidersAt(entries, id) ==
    LET es == SelectSeq(entries, LAMBDA e : e.item.locationId = id)
    IN  [j \in DOMAIN es |-> [provider |-> es[j].provider,
                               data |-> es[j].item.aggregated]]

\* The callback of Object.values(locationData).map (lines 283-302).
LocationAggregation(location) ==
    LET datas == [j \in DOMAIN location.providers |-> location.providers[j].data]
    IN  IF Len(location.providers) > 1
        THEN [locationId |-> location.locationId,
              providers |-> location.providers,
              consensus |-> calculateConsensus(datas),
              variations |-> calculateVariations(datas),
              agreement |-> calculateAgreement(datas)]
        ELSE [locationId |-> location.locationId,
              providers |-> location.providers,
              consensus |-> location.providers[1].data,
              variations |-> << >>,
              agreement |-> 100]

\* obj.field, Undefined when the object has no such field.
Get(obj, field) == IF field \in DOMAIN obj THEN obj[field] ELSE Undefined

\* The aggregation object built from a non-empty cloudData (lines 214-318).
crossCloudAggregationOf(cloudData) ==
    LET entries == EntriesOf(cloudData)
        allData == [j \in DOMAIN entries |-> entries[j].item.aggregated]
        keys == LocationKeys(entries, {})
        consensus == IF Len(allData) > 0 THEN calculateConsensus(allData) ELSE << >>
        variations == IF Len(allData) > 0 THEN calculateVariations(allData) ELSE << >>
        reliability == IF Len(allData) > 0
                       THEN calculateReliability(allData, Len(cloudData)) ELSE << >>
    IN  [cloudProviders |-> KeysOf(cloudData),
         dataPoints |-> Len(cloudData),
         consensus |-> consensus,
         variations |-> variations,
         reliability |-> reliability,
         locations |-> [j \in DOMAIN keys |->
             LocationAggregation([locationId |-> keys[j],
                                  providers |-> ProvidersAt(entries, keys[j])])],
         summary |-> [totalLocations |-> Len(keys),
                      averageTemperature |-> Get(consensus, "temperature"),
                      temperatureRange |-> Get(variations, "temperature"),
                      overallReliability |-> Get(reliability, "overall"),
                      dataFreshness |-> calculateDataFreshness(cloudData)]]

\* createCrossCloudAggregation without its providers.length === 0 guard.
createCrossCloudAggregationUnguarded(cloudData) ==
    Returned(crossCloudAggregationOf(cloudData))

createCrossCloudAggregation(cloudData) ==
    IF Len(cloudData) = 0
    THEN Threw(NoProviderMessage)
    ELSE Returned(crossCloudAggregationOf(cloudData))

\* The handler's locals after the join, as functions of the settled promises.
Results == [k \in DOMAIN cloudPromises |-> cloudPromises[k].state]
CloudData == cloudDataOf(Results, cloudProvidersOf(xevent))
Errors == errorsOf(Results, cloudProvidersOf(xevent))

SuccessResponse ==
    createResponse(200,
        [success |-> TRUE,
         cloudProviders |-> KeysOf(CloudData),
         failedProviders |-> KeysOf(Errors),
         location |-> xevent.location,
         aggregatedData |-> createCrossCloudAggregation(CloudData).value,
         errors |-> Errors])

\* The continuation of `await Promise.allSettled(cloudPromises)` (lines 44-65):
\* attribute the results, aggregate, then store when a location was given.
XJoin ==
    /\ xpc = "await"
    /\ AllSettled(Results)
    /\ LET a == createCrossCloudAggregation(CloudData)
       IN  IF a.threw
           THEN /\ xresponse' = createResponse(500, [success |-> FALSE, error |-> a.message])
                /\ xpc' = "done"
           ELSE IF IsString(xevent.location)
           THEN /\ xpc' = "storing"
                /\ UNCHANGED xresponse
           ELSE /\ xresponse' = SuccessResponse
                /\ xpc' = "done"
    /\ UNCHANGED <<xevent, cloudPromises, xsink, aggVars, provVars, uiVars, calcVars>>

\* storeAggregatedData: the put succeeds.
XStoreOk ==
    /\ xpc = "storing"
    /\ xsink' = Append(xsink, [location_id |-> xevent.location.text,
                               cloud_provider |-> "aggregated",
                               aggregated_data |-> createCrossCloudAggregation(CloudData).value])
    /\ xresponse' = SuccessResponse
    /\ xpc' = "done"
    /\ UNCHANGED <<xevent, cloudPromises, aggVars, provVars, uiVars, calcVars>>

\* storeAggregatedData rethrowing the put's failure: the handler's catch
\* answers 500.
XStoreFailRethrows ==
    /\ xpc = "storing"
    /\ xresponse' = createResponse(500, [success |-> FALSE, error |-> StoreMessage])
    /\ xpc' = "done"
    /\ UNCHANGED <<xevent, cloudPromises, xsink, aggVars, provVars, uiVars, calcVars>>

\* storeAggregatedData: the put fails; the catch logs and does not rethrow.
XStoreFail ==
    /\ xpc = "storing"
    /\ xresponse' = SuccessResponse
    /\ xpc' = "done"
    /\ UNCHANGED <<xevent, cloudPromises, xsink, aggVars, provVars, uiVars, calcVars>>

NextXC ==
    \/ XStart
    \/ \E k \in DOMAIN cloudPromises : ProviderFulfil(k)
    \/ \E k \in DOMAIN cloudPromises : ProviderReject(k)
    \/ XJoin
    \/ XStoreOk
    \/ XStoreFail

SpecXC == InitXC /\ [][NextXC]_vars

\* The invocation came from the aggregation route.
FromRoute == xevent # Pending /\ xevent.body # Undefined

\* C29: when the route forwards a request for location L, the handler
\* aggregates L: its location is L, every provider is fetched for L alone
\* (not for the default batch), and the response names L.
C29_RouteLocationAggregated ==
    (FromRoute /\ xpc # "start") =>
        /\ xevent.location = xevent.body.location
        /\ \A k \in DOMAIN cloudPromises :
              (cloudPromises[k].state # Pending
                 /\ cloudPromises[k].state.status = "fulfilled") =>
                  LET data == cloudPromises[k].state.value.data
                  IN  /\ ~data.isArray
                      /\ data.items[1].locationId = xevent.body.location.text
        /\ (xpc = "done" /\ xresponse.statusCode = 200) =>
              xresponse.body.location = xevent.body.location

-----------------------------------------------------------------------------
(* SpecLive: one invocation of either handler, under fairness *)

\* An invocation of a provider handler or of the aggregation handler.
InitLive == Init \/ InitXC

NextLive == Next \/ NextXC

\* The steps XJoin and XStoreOk / XStoreFail of the aggregation handler, told
\* by its position alone: within NextXC no other step leaves "await" or
\* "storing", and each is possible exactly when its guard holds.
JoinResumes ==
    xpc = "await" /\ AllSettled(Results) /\ xpc' \in {"storing", "done"}

StoreSettles == xpc = "storing" /\ xpc' = "done"

\* Every outbound call eventually settles (each is bounded by its 10 s axios
\* timeout or by the SDK), and the event loop runs every continuation that
\* is ready: a handler step that stays possible is eventually taken.
SpecLive ==
    /\ InitLive /\ [][NextLive]_vars
    /\ WF_vars(Next)
    /\ WF_vars(XStart)
    /\ WF_vars(\E k \in DOMAIN cloudPromises : ProviderFulfil(k) \/ ProviderReject(k))
    /\ WF_xpc(JoinResumes)
    /\ WF_xpc(StoreSettles)

HandlerReturned ==
    \/ hpc = "done" /\ response # Pending
    \/ xpc = "done" /\ xresponse # Pending

\* C24: every invocation of a provider handler and of the aggregation
\* handler eventually returns a response, whatever branches failed, and once
\* it has returned one, no step returns another or changes it.
C24_EventuallyOneResponse ==
    /\ <>HandlerReturned
    /\ [][HandlerReturned => UNCHANGED <<hpc, response, xpc, xresponse>>]_vars

\* Responses given after failed branches: a batch with a failed location, and
\* an aggregation with a failed provider.
C24_Witness ==
    \/ /\ hpc = "done" /\ response # Pending
       /\ response.statusCode = 200
       /\ \E i \in DOMAIN loc : loc[i].pc = "rejected"
    \/ /\ xpc = "done" /\ xresponse # Pending
       /\ \E k \in DOMAIN cloudPromises : cloudPromises[k].state.status = "rejected"

FulfilledFns ==
    { cloudPromises[k].fn : k \in { j \in DOMAIN cloudPromises :
          IsSettled(cloudPromises[j].state) /\ cloudPromises[j].state.status = "fulfilled" } }

RejectedFns ==
    { cloudPromises[k].fn : k \in { j \in DOMAIN cloudPromises :
          IsSettled(cloudPromises[j].state) /\ cloudPromises[j].state.status = "rejected" } }

SeqToSet(q) == { q[i] : i \in DOMAIN q }

\* C8: when every attempted provider fetch fails, the handler answers with an
\* explicit failure (500, success false, an error message) that carries no
\* aggregatedData, and nothing is written to the sink.
C8_AllProvidersFailed ==
    (xpc # "start" /\ xpc # "await" /\ FulfilledFns = {}) =>
        /\ xpc = "done"
        /\ xresponse.statusCode = 500
        /\ xresponse.body.success = FALSE
        /\ xresponse.body.error = NoProviderMessage
        /\ ~Has(xresponse.body, "aggregatedData")
        /\ xsink = << >>

C8_Witness ==
    /\ xpc = "done"
    /\ Len(cloudPromises) = 3
    /\ RejectedFns = ProviderSet
    /\ xresponse.statusCode = 500

\* C10: for every providers parameter, each settled result is attributed to
\* the provider that produced it: cloudProviders is exactly the set of
\* requested providers whose fetch succeeded, failedProviders exactly the set
\* whose fetch failed, and only succeeded providers' data is aggregated.
C10_Attribution ==
    (xpc = "done" /\ xresponse.statusCode = 200) =>
        /\ SeqToSet(xresponse.body.cloudProviders) = FulfilledFns
        /\ SeqToSet(xresponse.body.failedProviders) = RejectedFns
        /\ \A j \in DOMAIN CloudData :
              CloudData[j].value.source = SourceTag(CloudData[j].provider)
        /\ \A l \in DOMAIN xresponse.body.aggregatedData.locations :
              \A q \in DOMAIN xresponse.body.aggregatedData.locations[l].providers :
                 \E p \in FulfilledFns :
                    xresponse.body.aggregatedData.locations[l].providers[q].data
                        = ProviderAggregated(p)

\* C13: reliability.dataAvailability = 100 * (providers that contributed
\* data) / (providers attempted for the request): 33.3, 66.7, 100 for one,
\* two, three of three.
C13_DataAvailability ==
    (xpc = "done" /\ xresponse.statusCode = 200) =>
        LET availability == xresponse.body.aggregatedData.reliability.dataAvailability
            attempted == Len(cloudPromises)
            contributing == Cardinality(FulfilledFns)
        IN  availability.num * attempted = 100 * contributing * availability.den

\* The write of the finished aggregate was attempted and failed: a location
\* was given, the aggregation succeeded, and nothing reached the sink.
XStoreFailed ==
    /\ xpc = "done"
    /\ IsString(xevent.location)
    /\ FulfilledFns # {}
    /\ xsink = << >>

\* C18: a failed write of the finished aggregate does not change the
\* response: it is the success response (same aggregatedData, cloudProviders
\* and failedProviders) the handler gives when the write succeeds.
C18_StoreFailureSwallowed ==
    (xpc = "done" /\ IsString(xevent.location) /\ FulfilledFns # {}) =>
        /\ xresponse.statusCode = 200
        /\ xresponse.body.success = TRUE
        /\ xresponse.body.aggregatedData = crossCloudAggregationOf(CloudData)
        /\ xresponse.body.cloudProviders = KeysOf(CloudData)
        /\ xresponse.body.failedProviders = KeysOf(Errors)
        /\ xsink # << >> => xsink[1].aggregated_data = xresponse.body.aggregatedData

C18_Witness ==
    /\ XStoreFailed
    /\ xresponse.statusCode = 200
    /\ Len(xresponse.body.failedProviders) = 1

-----------------------------------------------------------------------------
(* SpecCalc: the cross-cloud aggregator's functions on bounded arguments *)

MaxPoints == 3

\* A provider's aggregated block (temperature and windSpeed in tenths).
Block(t, h, p, w, c) ==
    [temperature |-> t, humidity |-> h, pressure |-> p, windSpeed |-> w,
     windDirection |-> 180, visibility |-> 10000, cloudiness |-> c,
     descriptions |-> <<"clear sky">>, confidence |-> 100]

\* A block whose metric arrived as JSON null.
WithNull(b, m) ==
    [f \in ((DOMAIN b) \ {m}) \cup {"nulls"} |-> IF f = "nulls" THEN {m} ELSE b[f]]

FullBlocks ==
    { Block(180, 55, 1009, 30, 10), Block(190, 60, 1013, 35, 20),
      Block(200, 60, 1013, 35, 20), Block(205, 62, 1012, 36, 25),
      Block(210, 64, 1011, 40, 30), Block(220, 71, 1016, 50, 75) }

\* The data points handed to the statistics: complete blocks, and blocks
\* with an undefined or null metric.
CalcBlocks ==
    FullBlocks
    \cup { Without(Block(200, 60, 1013, 35, 20), "temperature"),
           Without(Block(210, 64, 1011, 40, 30), "humidity"),
           WithNull(Block(190, 60, 1013, 35, 20), "temperature") }

\* Four providers' blocks for one batch whose temperatures 15.0, 15.4, 16.3
\* and 18.0 have the mean 16.175, a tie between 16.17 and 16.18.
TieBlocks ==
    << Block(150, 55, 1009, 35, 10), Block(154, 60, 1013, 35, 20),
       Block(163, 62, 1012, 35, 25), Block(180, 64, 1011, 35, 30) >>

\* The four blocks in every order.
TieLists == { [i \in 1..4 |-> TieBlocks[p[i]]] : p \in Permutations(1..4) }

DataPointLists == UNION { [1..n -> CalcBlocks] : n \in 0..MaxPoints } \cup TieLists

\* The provider timestamps handed to calculateDataFreshness.
CalcTimestamps ==
    { InvalidDate }
    \cup { At(Now - age) : age \in {0, 270, 276, 299, 300, 894, 900, 3594, 3600} }

TimestampLists == UNION { [1..n -> CalcTimestamps] : n \in 0..MaxPoints }

\* cloudData carrying only what calculateDataFreshness reads.
TimedCloudData(ts) ==
    [j \in DOMAIN ts |-> [provider |-> ALL_PROVIDERS[((j - 1) % 3) + 1],
                           value |-> [timestamp |-> ts[j]]]]

\* The blocks the providers report in the aggregation arguments.
AggBlocks ==
    { Block(190, 60, 1013, 35, 20), Block(205, 62, 1012, 36, 25),
      Without(Block(220, 71, 1016, 50, 75), "temperature") }

Absent == [absent |-> TRUE]

\* What a provider's data can be: one location's object (with or without an
\* aggregated block), or an array over the locations it could fetch.
DataShapes ==
    { [isArray |-> FALSE, items |-> <<[locationId |-> "paris-fr", aggregated |-> b]>>] :
          b \in AggBlocks }
    \cup { [isArray |-> FALSE, items |-> <<[locationId |-> "paris-fr"]>>] }
    \cup { [isArray |-> TRUE,
            items |-> <<[locationId |-> "new-york", aggregated |-> b1],
                        [locationId |-> "london", aggregated |-> b2]>>] :
              b1 \in AggBlocks, b2 \in AggBlocks }
    \cup { [isArray |-> TRUE, items |-> <<[locationId |-> "london", aggregated |-> b]>>] :
              b \in AggBlocks }

\* The sources field of a provider record: the raw readings of the sources
\* that answered (fetchWeatherForLocation, part_002:140-163).
RawSourceSets ==
    LET r(n) == CHOOSE x \in ObservedBy(n) : TRUE
        failed == Rejected("timeout of 10000ms exceeded")
    IN  { SourcesOf(<<Fulfilled(r(1)), Fulfilled(r(2)), Fulfilled(r(3))>>),
          SourcesOf(<<Fulfilled(r(1)), failed, failed>>) }

\* cloudData whose provider at index j reports raw[j] as the sources of each
\* of its records.
WithSources(cloudData, raw) ==
    [j \in DOMAIN cloudData |->
        LET items == cloudData[j].value.data.items
        IN  [cloudData[j] EXCEPT !.value.data.items =
                [k \in DOMAIN items |->
                    [f \in (DOMAIN items[k]) \cup {"sources"} |->
                        IF f = "sources" THEN raw[j] ELSE items[k][f]]]]]

\* cloudData as the handler builds it: one entry per provider that answered.
CloudDataFrom(choice) ==
    LET answered == SelectSeq(<<1, 2, 3>>, LAMBDA k : choice[k] # Absent)
    IN  [j \in DOMAIN answered |->
            [provider |-> ALL_PROVIDERS[answered[j]],
             value |-> [source |-> SourceTag(ALL_PROVIDERS[answered[j]]),
                        timestamp |-> ProviderTimestamp(ALL_PROVIDERS[answered[j]]),
                        data |-> choice[answered[j]]]]]

CalcInputs ==
    { [fn |-> "statistics", dataPoints |-> dp, totalProviders |-> n] :
          dp \in DataPointLists, n \in 1..Len(ALL_PROVIDERS) }
    \cup { [fn |-> "calculateDataFreshness", cloudData |-> TimedCloudData(ts)] :
              ts \in TimestampLists }
    \cup { [fn |-> "createCrossCloudAggregation",
            cloudData |-> WithSources(CloudDataFrom(ch), [j \in 1..3 |-> raw])] :
              ch \in [1..3 -> DataShapes \cup {Absent}], raw \in RawSourceSets }

InitCalc ==
    /\ calcIn \in CalcInputs
    /\ calcOut = Pending
    /\ AggIdle /\ ProvIdle /\ XCIdle /\ UIIdle

\* calculateConsensus, calculateVariations, calculateAgreement and
\* calculateReliability on the same data points.
CalcStatistics ==
    /\ calcOut = Pending
    /\ calcIn.fn = "statistics"
    /\ calcOut' = [consensus |-> calculateConsensus(calcIn.dataPoints),
                   variations |-> calculateVariations(calcIn.dataPoints),
                   agreement |-> calculateAgreement(calcIn.dataPoints),
                   reliability |-> calculateReliability(calcIn.dataPoints,
                                                        calcIn.totalProviders)]
    /\ UNCHANGED <<calcIn, aggVars, provVars, xcVars, uiVars>>

CalcFreshness ==
    /\ calcOut = Pending
    /\ calcIn.fn = "calculateDataFreshness"
    /\ calcOut' = [dataFreshness |-> calculateDataFreshness(calcIn.cloudData)]
    /\ UNCHANGED <<calcIn, aggVars, provVars, xcVars, uiVars>>

CalcAggregation ==
    /\ calcOut = Pending
    /\ calcIn.fn = "createCrossCloudAggregation"
    /\ calcOut' = createCrossCloudAggregation(calcIn.cloudData)
    /\ UNCHANGED <<calcIn, aggVars, provVars, xcVars, uiVars>>

NextCalc ==
    \/ CalcStatistics
    \/ CalcFreshness
    \/ CalcAggregation

SpecCalc == InitCalc /\ [][NextCalc]_vars

StatisticsDone == calcOut # Pending /\ calcIn.fn = "statistics"

\* The indices of the data points that carry a numeric value for a metric.
PointsWith(m) == { i \in DOMAIN calcIn.dataPoints : Has(calcIn.dataPoints[i], m) }

\* The sum over the points S of the metric's value (square = FALSE) or of
\* its square (square = TRUE).
RECURSIVE PointSum(_, _, _)
PointSum(S, m, square) ==
    IF S = {} THEN 0
    ELSE LET i == CHOOSE j \in S : TRUE
             x == calcIn.dataPoints[i][m]
         IN  (IF square THEN x * x ELSE x) + PointSum(S \ {i}, m, square)

\* v (in hundredths) is the population standard deviation of the metric's
\* values rounded to two decimals: with n values, q = n * sum(x^2) - sum(x)^2
\* and h hundredths per unit, |h * sqrt(q) / n - v| <= 1/2.
IsPopulationStdDev(v, m) ==
    LET n == Cardinality(PointsWith(m))
        q == n * PointSum(PointsWith(m), m, TRUE)
               - PointSum(PointsWith(m), m, FALSE) * PointSum(PointsWith(m), m, FALSE)
        h == ToHundredths(m)
    IN  /\ IsFinite(v)
        /\ v.v >= 0
        /\ v.v = 0 \/ (2 * v.v - 1) * (2 * v.v - 1) * n * n <= 4 * h * h * q
        /\ 4 * h * h * q < (2 * v.v + 1) * (2 * v.v + 1) * n * n

\* C11: calculateVariations gives, for each metric with at least two values
\* present, their population standard deviation (divisor N, not N - 1), and
\* leaves out the key of every metric with fewer than two values.
C11_PopulationStdDev ==
    StatisticsDone =>
        \A k \in DOMAIN ConsensusMetrics :
            LET m == ConsensusMetrics[k]
            IN  IF Cardinality(PointsWith(m)) < 2
                THEN m \notin DOMAIN calcOut.variations
                ELSE /\ m \in DOMAIN calcOut.variations
                     /\ IsPopulationStdDev(calcOut.variations[m], m)

\* Temperatures 18.0 and 21.0 (deviation 1.50), humidity present only once.
C11_Witness ==
    /\ StatisticsDone
    /\ Len(calcIn.dataPoints) = 2
    /\ Cardinality(PointsWith("humidity")) = 1
    /\ Cardinality(PointsWith("temperature")) = 2
    /\ calcOut.variations.temperature = Fin(150)
    /\ "humidity" \notin DOMAIN calcOut.variations

TemperaturesAt(S) == { calcIn.dataPoints[i].temperature : i \in S }

SetMax(S) == CHOOSE x \in S : \A y \in S : y <= x
SetMin(S) == CHOOSE x \in S : \A y \in S : y >= x

\* max(0, round(100 - 25 * spread)) for a spread given in tenths of a degree:
\* 100 - 2.5 r = (200 - 5 r) / 2, rounded to the nearest integer (ties up).
AgreementScore(r) ==
    LET rounded == (200 - 5 * r + 1) \div 2
    IN  IF rounded < 0 THEN 0 ELSE rounded

NoNullTemperature ==
    \A i \in DOMAIN calcIn.dataPoints : ~IsNullAt(calcIn.dataPoints[i], "temperature")

\* C12: for at least two provider temperature values the agreement score is
\* max(0, round(100 - 25 * (max - min))), within 0..100 (100 for spread 0, 50
\* for spread 2, 0 from spread 4 on), and reliability.temperatureAgreement is
\* that same score.
C12_AgreementFormula ==
    (StatisticsDone /\ NoNullTemperature /\ Cardinality(PointsWith("temperature")) >= 2) =>
        LET temps == TemperaturesAt(PointsWith("temperature"))
            spread == SetMax(temps) - SetMin(temps)
        IN  /\ calcOut.agreement = AgreementScore(spread)
            /\ calcOut.agreement \in 0..100
            /\ spread = 0 => calcOut.agreement = 100
            /\ spread = 20 => calcOut.agreement = 50
            /\ spread >= 40 => calcOut.agreement = 0
            /\ Has(calcOut.reliability, "temperatureAgreement")
            /\ calcOut.reliability.temperatureAgreement.num
                   = AgreementScore(spread) * calcOut.reliability.temperatureAgreement.den

\* x is num / den rounded to the nearest integer (ties up), den > 0.
IsRoundOf(x, num, den) ==
    /\ IsFinite(x)
    /\ 2 * x.v * den - den <= 2 * num
    /\ 2 * num < 2 * x.v * den + den

\* C14: reliability.overall = round((dataAvailability + temperatureAgreement)
\* / 2), with 100 standing in for temperatureAgreement only when fewer than
\* two temperature values exist; a temperatureAgreement of 0 (spread of 4
\* degrees or more) enters the average as 0.
C14_OverallReliability ==
    StatisticsDone =>
        LET r == calcOut.reliability
            a == r.dataAvailability
            t == IF Cardinality(PointsWith("temperature")) >= 2
                 THEN r.temperatureAgreement ELSE Ratio(100, 1)
        IN  IsRoundOf(r.overall, a.num * t.den + t.num * a.den, 2 * a.den * t.den)

\* The data points of the call in the order given by the permutation p.
Reordered(p) == [i \in DOMAIN calcIn.dataPoints |-> calcIn.dataPoints[p[i]]]

\* C22: the statistics do not depend on the order of their data points: every
\* permutation of the data points given to calculateConsensus,
\* calculateVariations, calculateAgreement and calculateReliability yields
\* the results the call returned.
C22_OrderIndependent ==
    StatisticsDone =>
        \A p \in Permutations(DOMAIN calcIn.dataPoints) :
            /\ calculateConsensus(Reordered(p)) = calcOut.consensus
            /\ calculateVariations(Reordered(p)) = calcOut.variations
            /\ calculateAgreement(Reordered(p)) = calcOut.agreement
            /\ calculateReliability(Reordered(p), calcIn.totalProviders)
                   = calcOut.reliability

FreshnessDone == calcOut # Pending /\ calcIn.fn = "calculateDataFreshness"

ParsableAt == { j \in DOMAIN calcIn.cloudData :
                  Parsable(calcIn.cloudData[j].value.timestamp) }

RECURSIVE AgeSum(_)
AgeSum(S) ==
    IF S = {} THEN 0
    ELSE LET j == CHOOSE k \in S : TRUE
         IN  (Now - calcIn.cloudData[j].value.timestamp.at) + AgeSum(S \ {j})

\* C15: with A the average age in minutes of the parsable provider
\* timestamps, the class is 'very-fresh' for A < 5, 'fresh' for 5 <= A < 15,
\* 'moderate' for 15 <= A < 60, 'stale' for A >= 60 (4.6 minutes is
\* 'very-fresh'), and 'unknown' exactly when no timestamp is parsable.
C15_FreshnessClasses ==
    FreshnessDone =>
        LET n == Cardinality(ParsableAt)
            seconds == AgeSum(ParsableAt)
        IN  calcOut.dataFreshness =
                IF n = 0 THEN "unknown"
                ELSE IF seconds < 5 * 60 * n THEN "very-fresh"
                ELSE IF seconds < 15 * 60 * n THEN "fresh"
                ELSE IF seconds < 60 * 60 * n THEN "moderate"
                ELSE "stale"

AggregationDone ==
    /\ calcOut # Pending
    /\ calcIn.fn = "createCrossCloudAggregation"
    /\ ~calcOut.threw

\* Whether the provider at index j of cloudData reports location id, and the
\* aggregated block it reports for it.
ReportsAt(j, id) ==
    \E k \in DOMAIN calcIn.cloudData[j].value.data.items :
        LET it == calcIn.cloudData[j].value.data.items[k]
        IN  it.locationId = id /\ Has(it, "aggregated")

ReportedBlock(j, id) ==
    LET items == calcIn.cloudData[j].value.data.items
        k == CHOOSE i \in DOMAIN items : items[i].locationId = id
    IN  items[k].aggregated

ReportedIds ==
    { id \in {"paris-fr", "new-york", "london"} :
        \E j \in DOMAIN calcIn.cloudData : ReportsAt(j, id) }

\* The blocks reported for a location, in provider order.
BlocksFor(id) ==
    LET js == SelectSeq([j \in DOMAIN calcIn.cloudData |-> j],
                        LAMBDA j : ReportsAt(j, id))
    IN  [n \in DOMAIN js |-> ReportedBlock(js[n], id)]

\* C16: in the per-location breakdown a location reported by exactly one
\* provider has that provider's aggregated values unchanged as consensus, no
\* variations and agreement 100; a location reported by two or more providers
\* has consensus, variations and agreement computed from the values the
\* providers reported for that location, and from nothing else.
C16_LocationBreakdown ==
    AggregationDone =>
        LET locations == calcOut.value.locations
        IN  /\ { locations[l].locationId : l \in DOMAIN locations } = ReportedIds
            /\ Len(locations) = Cardinality(ReportedIds)
            /\ \A l \in DOMAIN locations :
                  LET blocks == BlocksFor(locations[l].locationId)
                  IN  IF Len(blocks) = 1
                      THEN /\ locations[l].consensus = blocks[1]
                           /\ locations[l].variations = << >>
                           /\ locations[l].agreement = 100
                      ELSE /\ locations[l].consensus = calculateConsensus(blocks)
                           /\ locations[l].variations = calculateVariations(blocks)
                           /\ locations[l].agreement = calculateAgreement(blocks)

\* London reported by two providers that disagree, New York by one only.
C16_Witness ==
    /\ AggregationDone
    /\ \E l1, l2 \in DOMAIN calcOut.value.locations :
          /\ Len(calcOut.value.locations[l1].providers) = 1
          /\ calcOut.value.locations[l1].consensus = calcOut.value.locations[l1].providers[1].data
          /\ Len(calcOut.value.locations[l2].providers) = 2
          /\ calcOut.value.locations[l2].agreement = 63
          /\ calcOut.value.locations[l2].variations.temperature = Fin(75)

\* C26: in every aggregate createCrossCloudAggregation returns,
\* reliability.dataAvailability and reliability.overall lie within 0..100,
\* for single-location data and for batches of several locations alike.
C26_ReliabilityRange ==
    (AggregationDone /\ Has(calcOut.value.reliability, "overall")) =>
        LET r == calcOut.value.reliability
        IN  /\ 0 <= r.dataAvailability.num
            /\ r.dataAvailability.num <= 100 * r.dataAvailability.den
            /\ IsFinite(r.overall)
            /\ r.overall.v \in 0..100

\* The providers of the call that report at least one aggregated block.
Contributors ==
    { j \in DOMAIN calcIn.cloudData :
        \E k \in DOMAIN calcIn.cloudData[j].value.data.items :
            Has(calcIn.cloudData[j].value.data.items[k], "aggregated") }

\* C27: the top-level variations and reliability.temperatureAgreement are
\* produced only when at least two providers contributed: with a single
\* contributing provider, even one reporting a batch of locations,
\* variations is empty and no temperatureAgreement is computed.
C27_SingleProviderNoSpread ==
    (AggregationDone /\ Cardinality(Contributors) < 2) =>
        /\ calcOut.value.variations = << >>
        /\ ~Has(calcOut.value.reliability, "temperatureAgreement")

\* The agreement of each location of an aggregation, by locationId.
AgreementsOf(aggregation) ==
    { <<aggregation.locations[l].locationId, aggregation.locations[l].agreement>> :
        l \in DOMAIN aggregation.locations }

\* C23: consensus, variations, reliability and per-location agreement depend
\* only on the providers' aggregated values: replacing the raw source
\* readings (sources) of the provider records by any others leaves all four
\* as the call returned them.
C23_RawReadingsIgnored ==
    AggregationDone =>
        \A raw \in [DOMAIN calcIn.cloudData -> RawSourceSets] :
            LET other == createCrossCloudAggregation(WithSources(calcIn.cloudData, raw))
            IN  /\ ~other.threw
                /\ other.value.consensus = calcOut.value.consensus
                /\ other.value.variations = calcOut.value.variations
                /\ other.value.reliability = calcOut.value.reliability
                /\ AgreementsOf(other.value) = AgreementsOf(calcOut.value)

\* Two providers report 19.0 and 20.5 for London, from raw readings of 22.0.
C23_Witness ==
    /\ AggregationDone
    /\ Len(calcIn.cloudData) = 2
    /\ \A j \in 1..2 :
          /\ Len(calcIn.cloudData[j].value.data.items) = 1
          /\ calcIn.cloudData[j].value.data.items[1].locationId = "london"
          /\ calcIn.cloudData[j].value.data.items[1].sources.openweather.temperature = 220
    /\ Has(calcOut.value.consensus, "temperature")
    /\ calcOut.value.consensus.temperature = Fin(1975)
    /\ Has(calcOut.value.reliability, "temperatureAgreement")
    /\ calcOut.value.reliability.temperatureAgreement = Ratio(125, 2)
    /\ AgreementsOf(calcOut.value) = { <<"london", 63>> }

-----------------------------------------------------------------------------
(* SpecUI: the aggregation route (route.ts) and the useWeatherData hook *)

MaxFetches == 3

Null == [null |-> TRUE]

\* The reading the aggregation service reports when it answers OK.
UpstreamLocation(location) ==
    [locationId |-> "paris-fr",
     locationName |-> location,
     consensus |-> [temperature |-> 18, humidity |-> 55, windSpeed |-> 4,
                    pressure |-> 1012],
     providers |-> <<[provider |-> "aws"], [provider |-> "azure"]>>]

\* The environment of one page: the location typed in, whether
\* AGGREGATION_LAMBDA_URL is set, how the aggregation service and the
\* /api/aws/weather route answer.
UIEnvs ==
    [location : {"Paris", ""},
     configured : BOOLEAN,
     upstream : {"unreachable", "notOk", "ok", "okNoData"},
     awsRoute : {"unreachable", "notOk", "ok"}]

\* The catch block's mockData (route.ts lines 59-86).
RouteMock(location) ==
    [status |-> 503,
     body |-> [aggregatedData |-> [locations |->
                  << [locationId |-> "mock",
                      locationName |-> location,
                      agreement |-> 0,
                      consensus |-> [temperature |-> 20, humidity |-> 65,
                                     windSpeed |-> 0, pressure |-> 1013],
                      providers |-> << >>] >>],
               cloudProviders |-> << >>,
               error |-> "All cloud providers are currently unavailable"]]

\* GET of /api/aggregation/weather.
GET(env) ==
    IF env.location = ""
    THEN [status |-> 400, body |-> [error |-> "Location parameter is required"]]
    ELSE IF ~env.configured
    THEN [status |-> 503,
          body |-> [error |-> "Aggregation service not configured",
                    aggregatedData |-> [locations |-> << >>],
                    cloudProviders |-> << >>]]
    ELSE IF env.upstream \in {"unreachable", "notOk"}
    THEN RouteMock(env.location)
    ELSE [status |-> 200,
          body |-> [aggregatedData |->
                        IF env.upstream = "ok"
                        THEN [locations |-> <<UpstreamLocation(env.location)>>]
                        ELSE [locations |-> << >>],
                    cloudProviders |-> IF env.upstream = "ok"
                                       THEN <<"aws", "azure">> ELSE << >>]]

\* response.ok
Ok(r) == r.status >= 200 /\ r.status <= 299

InitialProviders ==
    << [id |-> "aws", status |-> "healthy"],
       [id |-> "azure", status |-> "healthy"],
       [id |-> "gcp", status |-> "healthy"] >>

\* x || d for a numeric x: 0 is falsy.
OrDefault(x, d) == IF x = 0 THEN d ELSE x

\* The weatherData the hook sets in its fallback and catch branches.
PlaceholderWeather(location) ==
    [temperature |-> 72, humidity |-> 65, windSpeed |-> 8,
     description |-> "Partly Cloudy", location |-> location]

\* The weatherData the hook derives from the first location's consensus.
WeatherFrom(locationData) ==
    [temperature |-> OrDefault(locationData.consensus.temperature, 72),
     humidity |-> OrDefault(locationData.consensus.humidity, 65),
     windSpeed |-> OrDefault(locationData.consensus.windSpeed, 8),
     description |-> "Partly Cloudy",
     location |-> locationData.locationName]

\* providers.map(...): a provider is healthy only if the location's provider
\* list has an entry named after it with status 'healthy'.
UpdatedProviders(providers, locationData) ==
    [i \in DOMAIN providers |->
        [id |-> providers[i].id,
         status |-> IF \E q \in DOMAIN locationData.providers :
                          /\ Has(locationData.providers[q], "name")
                          /\ locationData.providers[q].name = providers[i].id
                          /\ Has(locationData.providers[q], "status")
                          /\ locationData.providers[q].status = "healthy"
                    THEN "healthy" ELSE "degraded"]]

InitUI ==
    /\ uipc = "idle"
    /\ uiEnv \in UIEnvs
    /\ routeResponse = Pending
    /\ hook = [weatherData |-> Null, providers |-> InitialProviders, loading |-> TRUE,
               error |-> "", dataSource |-> "Amazon Web Services",
               effectQueued |-> TRUE]
    /\ fetches = 0
    /\ AggIdle /\ ProvIdle /\ XCIdle /\ CalcIdle

\* useEffect runs fetchWeatherData (on mount, and whenever its identity
\* changed): setLoading(true), setError(null), fetch the aggregation route.
HookFetch ==
    /\ uipc = "idle"
    /\ hook.effectQueued
    /\ fetches < MaxFetches
    /\ hook' = [hook EXCEPT !.loading = TRUE, !.error = "", !.effectQueued = FALSE]
    /\ fetches' = fetches + 1
    /\ routeResponse' = Pending
    /\ uipc' = "route"
    /\ UNCHANGED <<uiEnv, aggVars, provVars, xcVars, calcVars>>

\* The route handles the request and answers.
RouteRespond ==
    /\ uipc = "route"
    /\ routeResponse' = GET(uiEnv)
    /\ uipc' = "resume"
    /\ UNCHANGED <<uiEnv, hook, fetches, aggVars, provVars, xcVars, calcVars>>

\* The hook's catch block: error message, mock data, 'Demo Data'.
Caught(h, location, message) ==
    [h EXCEPT !.error = message,
              !.weatherData = PlaceholderWeather(location),
              !.dataSource = "Demo Data",
              !.loading = FALSE]

\* The hook's fetch itself fails (the route is unreachable): catch block.
HookFetchThrows ==
    /\ uipc = "route"
    /\ hook' = Caught(hook, uiEnv.location, "Failed to fetch")
    /\ uipc' = "idle"
    /\ UNCHANGED <<uiEnv, routeResponse, fetches, aggVars, provVars, xcVars, calcVars>>

\* The continuation after the route's response (lines 36-68 and 91, 109-111).
HookResume ==
    /\ uipc = "resume"
    /\ IF Ok(routeResponse)
       THEN /\ uipc' = "idle"
            /\ IF Len(routeResponse.body.aggregatedData.locations) > 0
               THEN LET locationData == routeResponse.body.aggregatedData.locations[1]
                    IN  hook' = [hook EXCEPT
                            !.weatherData = WeatherFrom(locationData),
                            !.providers = UpdatedProviders(hook.providers, locationData),
                            !.dataSource = "Multi-cloud aggregation",
                            !.effectQueued = TRUE,
                            !.loading = FALSE]
               ELSE hook' = [hook EXCEPT !.loading = FALSE]
       ELSE /\ uipc' = "awsFallback"
            /\ UNCHANGED hook
    /\ UNCHANGED <<uiEnv, routeResponse, fetches, aggVars, provVars, xcVars, calcVars>>

\* The fallback fetch of /api/aws/weather (lines 69-89) and what follows it.
AwsFallback ==
    /\ uipc = "awsFallback"
    /\ hook' = IF uiEnv.awsRoute = "ok"
               THEN [hook EXCEPT !.weatherData = PlaceholderWeather(uiEnv.location),
                                 !.dataSource = "Amazon Web Services",
                                 !.loading = FALSE]
               ELSE Caught(hook, uiEnv.location, "Failed to fetch weather data")
    /\ uipc' = "idle"
    /\ UNCHANGED <<uiEnv, routeResponse, fetches, aggVars, provVars, xcVars, calcVars>>

NextUI ==
    \/ HookFetch
    \/ RouteRespond
    \/ HookFetchThrows
    \/ HookResume
    \/ AwsFallback

SpecUI == InitUI /\ [][NextUI]_vars

TotalFailure ==
    /\ uiEnv.location # ""
    /\ uiEnv.configured
    /\ uiEnv.upstream \in {"unreachable", "notOk"}

PlaceholderTemperatures == {20, 72}

\* C9: on total failure (aggregation service unreachable or not OK) neither
\* the route's response nor the hook's weatherData holds a placeholder
\* temperature/humidity.
C9_NoFabricatedReading ==
    TotalFailure =>
        /\ routeResponse # Pending =>
              \A l \in DOMAIN routeResponse.body.aggregatedData.locations :
                 routeResponse.body.aggregatedData.locations[l].consensus.temperature
                     \notin PlaceholderTemperatures
        /\ hook.weatherData # Null =>
              hook.weatherData.temperature \notin PlaceholderTemperatures

\* C30: the hook quiesces. Once a run of fetchWeatherData has finished (the
\* hook is idle again after at least one fetch), no further run of the effect
\* is queued and loading is false, also when the response was OK and held
\* locations.
C30_Quiesces ==
    (uipc = "idle" /\ fetches > 0) =>
        /\ ~hook.effectQueued
        /\ ~hook.loading

====
